---- MODULE Spec2Model ----
(***************************************************************************)
(* StarrTrakt: the Trakt OAuth2 token lifecycle (trakt_get_valid_tokens)   *)
(* and the watchlist request with its one retry on 401                     *)
(* (TraktWatchlistConnection._make_watchlist_request), as one invocation   *)
(* of the hook script.  common.py and starrtrakt.py carry the same code    *)
(* for both; line numbers refer to common.py.  Around them: the start of   *)
(* the scripts (starrtrakt.py, radarr_trakt.py), main, handle_event,       *)
(* test_connection, build_event_data and format_item.                      *)
(***************************************************************************)
EXTENDS Integers, Sequences, FiniteSets, TLC

VARIABLES
    now,        \* time.time(), whole seconds
    tokenFile,  \* tmp/trakt_tokens.json: [present, closed, entries, extra]
    pc,         \* position in _make_watchlist_request
    attempt,    \* the loop variable of "for attempt in range(2)"
    request,    \* endpoint and payload built at the top of the request
    bearer,     \* access token placed in the Authorization header
    sent,       \* the watchlist POSTs issued so far, in order
    responses,  \* the answers received for them: [status, body, exchanges]
    result,     \* what _make_watchlist_request returned
    error,      \* the exception that left _make_watchlist_request
                \* (or that test_connection caught)
    gpc,        \* position in the running trakt_get_valid_tokens call
    tokens,     \* its local "tokens"
    pin,        \* its local "pin" (after strip)
    gv,         \* record of what the running / last call did
    op,         \* record of what the whole operation did
    inv,        \* the invocation: script, credentials, event type, argv, env
    mpc,        \* position in the script: boot, main, handle, running, exited
                \* (formatted: format_item called on its own)
    event,      \* event_type and event_data handed to handle_event
    item,       \* format_item(event_data)
    hret,       \* what handle_event returned
    exit,       \* how the process ended and its exit code
    probe,      \* what test_connection did
    saver,      \* a trakt_save_tokens in progress: position, record, old file
    reader      \* a trakt_load_tokens of another invocation and what it got

hookVars == <<inv, mpc, event, item, hret, exit, probe>>
ioVars == <<saver, reader>>

vars == <<now, tokenFile, pc, attempt, request, bearer, sent, responses,
          result, error, gpc, tokens, pin, gv, op, hookVars, ioVars>>

---------------------------------------------------------------------------
(* Bounds of the model *)

MaxNow == 2

(* Program constants *)

ExpiryBuffer == 60
MaxAttempts == 2
Unauthorized == 401
ErrorFloor == 400

---------------------------------------------------------------------------
(* Token records: Python dicts keyed by field name; None is the absent one *)

Fields == {"access_token", "refresh_token", "created_at", "expires_in"}
FieldOrder == <<"access_token", "refresh_token", "created_at", "expires_in">>

None == [none |-> TRUE]

Rec(d, a, r, c, e) ==
    [k \in d |-> CASE k = "access_token" -> a
                   [] k = "refresh_token" -> r
                   [] k = "created_at" -> c
                   [] OTHER -> e]

CreatedAts == {0, 1}
ExpiresIns == {60, 61}

\* what an earlier invocation (or the user) may have left in the token file
StoredRecords ==
    { Rec(d, "A", "R", c, e) : d \in SUBSET Fields, c \in CreatedAts, e \in ExpiresIns }

\* JSON objects the token endpoint may answer with a 2xx status
\* (complete ones, and ones that lack token fields)
ResponseObjects ==
    { Rec(Fields, "B", "S", 1, e) : e \in ExpiresIns }
        \cup { Rec(d, "B", "S", 1, 61) :
                   d \in { Fields \ {"access_token"}, Fields \ {"created_at"}, {} } }

\* Python truthiness of "tokens": None and the empty dict are falsy
Truthy(t) == t # None /\ DOMAIN t # {}

---------------------------------------------------------------------------
(* json.dump / json.load of a token record.  The file text is a sequence   *)
(* of entries <<key, kind, chars>>, numbers written in decimal digits, and *)
(* is "closed" once the final brace is written.  "extra" counts the        *)
(* characters of an older, longer text left behind the document when a     *)
(* buffered write lands at offset 0 of a file that is not cut.             *)

Digits == <<"0", "1", "2", "3", "4", "5", "6", "7", "8", "9">>

\* numbers written with their last digit only
IntToChars_LastDigit(n) == <<Digits[(n % 10) + 1]>>

RECURSIVE IntToChars(_)
IntToChars(n) ==
    IF n < 10 THEN <<Digits[n + 1]>>
    ELSE Append(IntToChars(n \div 10), Digits[(n % 10) + 1])

DigitVal(c) == CHOOSE d \in 0..9 : Digits[d + 1] = c

RECURSIVE CharsToInt(_)
CharsToInt(cs) ==
    IF Len(cs) = 0 THEN 0
    ELSE 10 * CharsToInt(SubSeq(cs, 1, Len(cs) - 1)) + DigitVal(cs[Len(cs)])

IsNumberField(k) == k \in {"created_at", "expires_in"}

Entry(k, v) ==
    IF IsNumberField(k) THEN <<k, "num", IntToChars(v)>> ELSE <<k, "str", <<v>>>>

RECURSIVE DumpFrom(_, _)
DumpFrom(t, i) ==
    IF i > Len(FieldOrder) THEN <<>>
    ELSE IF FieldOrder[i] \in DOMAIN t
         THEN <<Entry(FieldOrder[i], t[FieldOrder[i]])>> \o DumpFrom(t, i + 1)
         ELSE DumpFrom(t, i + 1)

json_dump(t) ==
    [present |-> TRUE, closed |-> TRUE, entries |-> DumpFrom(t, 1), extra |-> 0]

\* number of characters of a quoted key, the quotes not counted
KeyLen(k) ==
    CASE k = "access_token" -> 12
      [] k = "refresh_token" -> 13
      [] OTHER -> 10

\* one line of json.dump(indent=2): two blanks, "key", colon, blank, value
EntryLen(e) ==
    2 + (KeyLen(e[1]) + 2) + 2 + (IF e[2] = "num" THEN Len(e[3]) ELSE Len(e[3]) + 2)

RECURSIVE EntriesLen(_)
EntriesLen(es) ==
    IF Len(es) = 0 THEN 0 ELSE EntryLen(Head(es)) + EntriesLen(Tail(es))

\* length of the text json.dump(indent=2) writes: "{}" for the empty dict,
\* else "{\n", the lines joined by ",\n", and "\n}"
TextLen(es) ==
    IF Len(es) = 0 THEN 2
    ELSE 2 + EntriesLen(es) + 2 * (Len(es) - 1) + 2

\* size of the file in characters; a file open(..., "w") has cut is empty
Size(f) == IF f.present /\ f.closed THEN TextLen(f.entries) + f.extra ELSE 0

\* the flush at close: the whole text written at offset 0 of the file as
\* it is then, whatever lies behind the text stays
WriteAtStart(f, es) ==
    [present |-> TRUE, closed |-> TRUE, entries |-> es,
     extra |-> IF Size(f) > TextLen(es) THEN Size(f) - TextLen(es) ELSE 0]

\* the file right after open(..., "w"): there, and empty
Truncated == [present |-> TRUE, closed |-> FALSE, entries |-> <<>>, extra |-> 0]

EntryValue(e) == IF e[2] = "num" THEN CharsToInt(e[3]) ELSE e[3][1]

json_load(f) ==
    LET es == f.entries
        keys == { es[i][1] : i \in 1..Len(es) }
        last(k) == CHOOSE i \in 1..Len(es) :
                       es[i][1] = k /\ \A j \in 1..Len(es) : es[j][1] = k => j <= i
    IN  [k \in keys |-> EntryValue(es[last(k)])]

NoFile == [present |-> FALSE, closed |-> FALSE, entries |-> <<>>, extra |-> 0]
\* a file json.load cannot parse: the empty one
BrokenFile == Truncated

\* trakt_load_tokens: None without a file; json.load raises on an empty
\* file and on one with text behind the document ("Extra data")
LoadRaises(f) == f.present /\ (~f.closed \/ f.extra > 0)
trakt_load_tokens(f) == IF f.present THEN json_load(f) ELSE None

\* a save that keeps the two token strings only
trakt_save_tokens_StringsOnly(t) ==
    json_dump([k \in DOMAIN t \cap {"access_token", "refresh_token"} |-> t[k]])

\* trakt_save_tokens: open(..., "w") and json.dump
trakt_save_tokens(t) == json_dump(t)

---------------------------------------------------------------------------
(* Decisions of the code, as operators *)

\* the comparison taken as >=
trakt_is_token_expired_AtBoundary(t, time) ==
    IF ~Truthy(t) \/ "created_at" \notin DOMAIN t \/ "expires_in" \notin DOMAIN t
    THEN TRUE
    ELSE time >= t["created_at"] + t["expires_in"] - ExpiryBuffer

\* lines 83-88
trakt_is_token_expired(t, time) ==
    IF ~Truthy(t) \/ "created_at" \notin DOMAIN t \/ "expires_in" \notin DOMAIN t
    THEN TRUE
    ELSE time > t["created_at"] + t["expires_in"] - ExpiryBuffer

\* the "not" lost
FastPath_Inverted(t, time) == Truthy(t) /\ trakt_is_token_expired(t, time)

\* line 122: if tokens and not trakt_is_token_expired(tokens)
FastPath(t, time) == Truthy(t) /\ ~trakt_is_token_expired(t, time)

\* the refresh tried only for a record that still has its access token
CanRefresh_NeedsAccessToken(t) ==
    Truthy(t) /\ {"access_token", "refresh_token"} \subseteq DOMAIN t

\* line 124: if tokens and "refresh_token" in tokens
CanRefresh(t) == Truthy(t) /\ "refresh_token" \in DOMAIN t

\* line 136-137: pin = input(...).strip(); if not pin
RECURSIVE lstrip(_)
lstrip(s) == IF Len(s) > 0 /\ s[1] = " " THEN lstrip(Tail(s)) ELSE s
RECURSIVE rstrip(_)
rstrip(s) ==
    IF Len(s) > 0 /\ s[Len(s)] = " " THEN rstrip(SubSeq(s, 1, Len(s) - 1)) ELSE s
strip(s) == rstrip(lstrip(s))
\* the empty-PIN check left out
PinMissing_Never(typed) == FALSE

PinMissing(typed) == strip(typed) = <<>>

\* every failed request retried
ShouldRetry_AnyFailure(status, att) == status >= ErrorFloor

\* the retry not limited to the first attempt
ShouldRetry_AnyAttempt(status, att) == status = Unauthorized

\* line 175: if status == 401 and attempt == 0
ShouldRetry(status, att) == status = Unauthorized /\ att = 0

\* only server errors taken as failures
IsFailure_ServerOnly(status) == status >= 500

\* line 180: if status >= 400
IsFailure(status) == status >= ErrorFloor

---------------------------------------------------------------------------
(* Inputs from the environment *)

Statuses == {200, 401, 403, 500}
Bodies == {"", "{}", "oops"}
IsJson(b) == b = "{}"

\* what the user may type at the PIN prompt
TypedPins == {<<>>, <<" ">>, <<" ", "7">>}

\* outcomes of urlopen + json.loads in trakt_post_json
ExchangeFailures == {"network", "http_error", "not_json"}

Actions == {"add", "remove"}
MediaTypes == {"series", "movie"}

NoError == [kind |-> "none", status |-> 0, body |-> ""]
Raise(k) == [kind |-> k, status |-> 0, body |-> ""]

NoResponse == [kind |-> "none", obj |-> None]

NewCall(n, f) ==
    [n |-> n, fileAtStart |-> f, loaded |-> None, loadedAt |-> 0,
     refreshes |-> 0, pinExchanges |-> 0, prompts |-> 0, writes |-> 0,
     via |-> "running", newTokens |-> None, ret |-> None, savedAt |-> 0,
     refreshResp |-> NoResponse, typed |-> <<>>, prompted |-> FALSE,
     checked |-> FALSE, expired |-> FALSE]

NewOp == [calls |-> 0, exchanges |-> 0, exchangesAfterPost |-> 0, prompts |-> 0]

---------------------------------------------------------------------------
(* Python values of the event data: strings are sequences of characters *)

PyNone == <<"none">>
PyStr(cs) == <<"str", cs>>
PyInt(n) == <<"int", n>>

\* only None taken as falsy
PyTruthy_NotNone(v) == v[1] # "none"

\* truthiness of a value: None, "" and 0 are falsy
PyTruthy(v) ==
    CASE v[1] = "none" -> FALSE
      [] v[1] = "str" -> v[2] # <<>>
      [] OTHER -> v[2] # 0

\* "x or None"
OrNone(v) == IF PyTruthy(v) THEN v ELSE PyNone

UpperCase == <<"A", "B", "C", "D", "E", "F", "G", "H", "I", "J", "K", "L", "M",
               "N", "O", "P", "Q", "R", "S", "T", "U", "V", "W", "X", "Y", "Z">>
LowerCase == <<"a", "b", "c", "d", "e", "f", "g", "h", "i", "j", "k", "l", "m",
               "n", "o", "p", "q", "r", "s", "t", "u", "v", "w", "x", "y", "z">>

LowerOf ==
    [c \in { UpperCase[i] : i \in 1..Len(UpperCase) } |->
        LowerCase[CHOOSE i \in 1..Len(UpperCase) : UpperCase[i] = c]]

lower_char(c) == IF c \in DOMAIN LowerOf THEN LowerOf[c] ELSE c

\* str.lower
lower(cs) == [i \in 1..Len(cs) |-> lower_char(cs[i])]

\* int(s) raises ValueError unless s is a numeral
IsNumeral(cs) ==
    Len(cs) > 0 /\ \A i \in 1..Len(cs) : \E d \in 1..Len(Digits) : Digits[d] = cs[i]

---------------------------------------------------------------------------
(* The handler variants (common.py 299-317, starrtrakt.py 230-239) *)

Scripts == {"starrtrakt", "radarr_trakt"}
Services == {"sonarr", "radarr"}

T_test == <<"t", "e", "s", "t">>
T_seriesadd == <<"s", "e", "r", "i", "e", "s", "a", "d", "d">>
T_seriesdelete == <<"s", "e", "r", "i", "e", "s", "d", "e", "l", "e", "t", "e">>
T_movieadded == <<"m", "o", "v", "i", "e", "a", "d", "d", "e", "d">>
T_moviedelete == <<"m", "o", "v", "i", "e", "d", "e", "l", "e", "t", "e">>
T_download == <<"d", "o", "w", "n", "l", "o", "a", "d">>

MediaType(sv) == IF sv = "radarr" THEN "movie" ELSE "series"
EnvPrefix(sv) == IF sv = "radarr" THEN "radarr_movie" ELSE "sonarr_series"
AddEvents(sv) == IF sv = "radarr" THEN {T_movieadded} ELSE {T_seriesadd}
RemoveEvents(sv) ==
    IF sv = "radarr" THEN {T_download, T_moviedelete} ELSE {T_download, T_seriesdelete}

\* event types as the applications (or the command line) spell them
EventTypes ==
    { <<"T", "e", "s", "t">>,
      <<"S", "e", "r", "i", "e", "s", "A", "d", "d">>,
      <<"M", "o", "v", "i", "e", "A", "d", "d", "e", "d">>,
      <<"D", "o", "w", "n", "l", "o", "a", "d">>,
      T_seriesdelete,
      T_moviedelete,
      <<"G", "r", "a", "b">> }

---------------------------------------------------------------------------
(* The environment and build_event_data (lines 279-297) *)

EnvSuffixes == {"title", "year", "imdbid", "tmdbid", "tvdbid"}

\* os.getenv(name): the value, or None when the variable is not set
getenv(env, name) == IF name \in DOMAIN env THEN PyStr(env[name]) ELSE PyNone

\* int(os.getenv(name, 0))
getenv_int_raises(env, name) == name \in DOMAIN env /\ ~IsNumeral(env[name])
getenv_int(env, name) == IF name \in DOMAIN env THEN CharsToInt(env[name]) ELSE 0

\* the numeric ids that build_event_data copies: "if os.getenv(env_key)"
CopiedIds(env, prefix) ==
    { k \in {"tmdbid", "tvdbid"} : PyTruthy(getenv(env, <<prefix, k>>)) }

build_event_data_raises(env, prefix) ==
    /\ PyTruthy(getenv(env, <<prefix, "title">>))
    /\ \/ getenv_int_raises(env, <<prefix, "year">>)
       \/ \E k \in CopiedIds(env, prefix) : getenv_int_raises(env, <<prefix, k>>)

\* event data: <<"none">> for None, <<"dict", d>> for a dict d
build_event_data(env, prefix) ==
    IF ~PyTruthy(getenv(env, <<prefix, "title">>))
    THEN PyNone
    ELSE <<"dict",
           [k \in {"title", "year", "imdbId"} \cup CopiedIds(env, prefix) |->
               CASE k = "title" -> getenv(env, <<prefix, "title">>)
                 [] k = "year" -> OrNone(PyInt(getenv_int(env, <<prefix, "year">>)))
                 [] k = "imdbId" -> getenv(env, <<prefix, "imdbid">>)
                 [] OTHER -> OrNone(PyInt(getenv_int(env, <<prefix, k>>)))]>>

\* "if not event_data": None and the empty dict are falsy
DataTruthy(data) == data[1] = "dict" /\ DOMAIN data[2] # {}

---------------------------------------------------------------------------
(* format_item (lines 216-231) *)

\* dict.get(key)
Get(d, k) == IF k \in DOMAIN d THEN d[k] ELSE PyNone

IdSource(id) ==
    CASE id = "imdb" -> "imdbId"
      [] id = "tmdb" -> "tmdbId"
      [] OTHER -> "tvdbId"

\* the item: its "ids" dict, and its other keys (title, year) in "fields"
format_item(d) ==
    [ids |-> [id \in { i \in {"imdb", "tmdb", "tvdb"} : PyTruthy(Get(d, IdSource(i))) }
                 |-> Get(d, IdSource(id))],
     fields |-> [k \in { f \in {"title", "year"} : PyTruthy(Get(d, f)) } |-> Get(d, k)]]

NoItem == [ids |-> <<>>, fields |-> <<>>]

---------------------------------------------------------------------------
(* handle_event (common.py 245-277, starrtrakt.py 241-270) *)

IsTest(etype) == lower(etype) = T_test

\* the final "else" missing: what is not an add is a remove
Branch_UnknownRemoves(sv, etype) ==
    IF lower(etype) \in AddEvents(sv) THEN "add" ELSE "remove"

\* lines 255-272: the branch taken for an event with data
Branch(sv, etype) ==
    IF lower(etype) \in AddEvents(sv) THEN "add"
    ELSE IF lower(etype) \in RemoveEvents(sv) THEN "remove"
    ELSE "unknown"

\* common.py checks the data first and the test event second (lines 247-253);
\* starrtrakt.py checks the test event first (lines 242-247)
Dispatch(script, sv, etype, data) ==
    IF script = "starrtrakt"
    THEN IF IsTest(etype) THEN "test"
         ELSE IF ~DataTruthy(data) THEN "nodata"
         ELSE Branch(sv, etype)
    ELSE IF ~DataTruthy(data) THEN "nodata"
         ELSE IF IsTest(etype) THEN "test"
         ELSE Branch(sv, etype)

\* return True after a request that returned, False from "except Exception"
HandleResult(p) == IF p \in {"returned", "t_true"} THEN "true" ELSE "false"

\* the result of handle_event ignored
ExitCode_AlwaysZero(r) == 0

\* sys.exit(0 if success else 1)
ExitCode(r) == IF r = "true" THEN 0 ELSE 1

---------------------------------------------------------------------------
(* The invocation *)

\* TRAKT_CLIENT_ID / TRAKT_CLIENT_SECRET: set or not
Credentials ==
    { [id |-> "set", secret |-> "set"], [id |-> "set", secret |-> "unset"] }

\* starrtrakt.py 18-20; common.py has no such check
CredentialsMissing(c) == c.id # "set" \/ c.secret # "set"
StartupCheck(script, c) == script = "starrtrakt" /\ CredentialsMissing(c)

NoEnv == [n \in {} |-> <<>>]
FullEnv(prefix) ==
    [n \in { <<prefix, x>> : x \in EnvSuffixes } |->
        CASE n[2] = "title" -> <<"F", "o", "o">>
          [] n[2] = "year" -> <<"2", "0", "2", "0">>
          [] n[2] = "imdbid" -> <<"t", "t", "1">>
          [] n[2] = "tmdbid" -> <<"5">>
          [] OTHER -> <<"0">>]
BadYearEnv(prefix) ==
    [n \in { <<prefix, "title">>, <<prefix, "year">> } |->
        IF n[2] = "title" THEN <<"F", "o", "o">> ELSE <<"x">>]

\* sys.argv[2]: not given, the JSON text {}, or text that is not JSON
ArgvData == {"absent", "{}", "bad"}

\* etype <<>>: no event type in the environment or on the command line
MainEnvs(sv) == {NoEnv, FullEnv(EnvPrefix(sv)), BadYearEnv(EnvPrefix(sv))}

Invocations ==
    UNION { { [script |-> sc, service |-> sv, creds |-> c, etype |-> t,
               argv |-> a, env |-> e] :
                sc \in Scripts, c \in Credentials,
                t \in EventTypes \cup {<<>>}, a \in ArgvData, e \in MainEnvs(sv) } :
            sv \in Services }

\* radarr_trakt.py always builds the movie handler; starrtrakt.py builds it
\* when radarr_eventtype is set, which then is the event type.  Command-line
\* data makes main ignore the environment, so it is paired with the empty
\* environment, and it follows an event type on the command line;
\* the runs without credentials are a test event and an add event.
RunnableInvocations ==
    { i \in Invocations :
        /\ i.script = "radarr_trakt" => i.service = "radarr"
        /\ (i.script = "starrtrakt" /\ i.service = "radarr") => i.etype # <<>>
        /\ i.argv # "absent" => i.env = NoEnv /\ i.etype # <<>>
        /\ CredentialsMissing(i.creds) =>
              /\ i.argv = "absent"
              /\ i.env = FullEnv(EnvPrefix(i.service))
              /\ lower(i.etype) \in {<<>>, T_test, T_movieadded, T_seriesadd} }

\* the token file an invocation may find
TokenFiles == {NoFile, BrokenFile} \cup { json_dump(t) : t \in StoredRecords }

\* the files every invocation is run against: none, a broken one, a complete
\* record still valid at MaxNow, a complete record that expires on the way
CommonFiles ==
    { NoFile, BrokenFile,
      json_dump(Rec(Fields, "A", "R", 1, 61)),
      json_dump(Rec(Fields, "A", "R", 0, 60)) }

\* the invocations run against every token file: an add and a test event
\* through common.py, a remove and a test event through starrtrakt.py
Thorough(i) ==
    /\ i.argv = "absent"
    /\ ~CredentialsMissing(i.creds)
    /\ \/ /\ i.script = "radarr_trakt"
          /\ i.env = FullEnv(EnvPrefix(i.service))
          /\ lower(i.etype) \in {T_movieadded, T_test}
       \/ /\ i.script = "starrtrakt"
          /\ i.service = "sonarr"
          /\ \/ i.env = FullEnv(EnvPrefix(i.service)) /\ i.etype = T_seriesdelete
             \/ i.env = NoEnv /\ i.etype = <<>>

Starts ==
    { st \in RunnableInvocations \X TokenFiles :
        Thorough(st[1]) \/ st[2] \in CommonFiles }

NoEvent == [type |-> <<>>, data |-> PyNone]
Running == [code |-> -1, how |-> "running"]
\* no save and no load of another process under way
NoSave == [pc |-> "idle", record |-> None, before |-> NoFile, buffer |-> <<>>]
NoRead == [pc |-> "idle", raised |-> FALSE, got |-> None]

NoProbe == [called |-> FALSE, sent |-> <<>>,
            answer |-> [kind |-> "none", status |-> 0, body |-> ""]]

\* the request of test_connection: a POST of "null" through http_post in
\* common.py (lines 198-204), a GET through urlopen in starrtrakt.py (193-199)
AccountStatuses == {200, 304, 401, 500}
AccountResponses ==
    { [kind |-> "transport", status |-> 0, body |-> ""],
      [kind |-> "http", status |-> 200, body |-> "oops"] }
        \cup { [kind |-> "http", status |-> st, body |-> "{}"] : st \in AccountStatuses }

AccountMethod(script) == IF script = "starrtrakt" THEN "GET" ELSE "POST"

\* the answers after which test_connection returns True
TestSucceeds(script, resp) ==
    /\ resp.kind = "http"
    /\ IF script = "starrtrakt"
       THEN resp.status >= 200 /\ resp.status < 300
       ELSE ~(resp.status >= ErrorFloor)
    /\ IsJson(resp.body)

---------------------------------------------------------------------------
Init ==
    /\ now = 0
    /\ \E st \in Starts : inv = st[1] /\ tokenFile = st[2]
    /\ pc = "idle"
    /\ attempt = 0
    /\ request = [endpoint |-> "", key |-> "", items |-> <<>>]
    /\ bearer = ""
    /\ sent = <<>>
    /\ responses = <<>>
    /\ result = "none"
    /\ error = NoError
    /\ gpc = "off"
    /\ tokens = None
    /\ pin = <<>>
    /\ gv = NewCall(0, NoFile)
    /\ op = NewOp
    /\ mpc = "boot"
    /\ event = NoEvent
    /\ item = NoItem
    /\ hret = "none"
    /\ exit = Running
    /\ probe = NoProbe
    /\ saver = NoSave
    /\ reader = NoRead

\* the clock moves on between any two steps of the running process
Tick ==
    /\ mpc = "running"
    /\ pc \notin {"returned", "raised", "t_true", "t_false"}
    /\ now < MaxNow
    /\ now' = now + 1
    /\ UNCHANGED <<tokenFile, pc, attempt, request, bearer, sent, responses,
                   result, error, gpc, tokens, pin, gv, op, hookVars, ioVars>>

\* entering trakt_get_valid_tokens (lines 120-121)
BeginCall ==
    /\ gpc' = "load"
    /\ tokens' = None
    /\ pin' = <<>>
    /\ gv' = NewCall(op.calls + 1, tokenFile)
    /\ op' = [op EXCEPT !.calls = @ + 1]

\* where an exception raised at position p lands: test_connection catches
\* it (lines 210-213), _make_watchlist_request lets it through
RaisedAt(p) == IF p \in {"t_headers", "t_request"} THEN "t_false" ELSE "raised"

\* an exception leaves trakt_get_valid_tokens and, uncaught, its caller
RaiseFromCall(k) ==
    /\ gpc' = "off"
    /\ pc' = RaisedAt(pc)
    /\ error' = Raise(k)

\* a token exchange went over the network (trakt_post_json was called)
CountExchange ==
    op' = [op EXCEPT !.exchanges = @ + 1,
                     !.exchangesAfterPost = @ + (IF Len(sent) > 0 THEN 1 ELSE 0)]

\* every request sent to the add endpoint
Endpoint_AlwaysAdd(a) == "/sync/watchlist"

Endpoint(a) == IF a = "remove" THEN "/sync/watchlist/remove" ELSE "/sync/watchlist"
Key(m) == IF m = "series" THEN "shows" ELSE "movies"

\* add_to_watchlist / remove_from_watchlist -> _make_watchlist_request,
\* up to the first trakt_headers() of the loop
Start(a, m, i) ==
    /\ pc = "idle"
    /\ request' = [endpoint |-> Endpoint(a), key |-> Key(m), items |-> <<i>>]
    /\ attempt' = 0
    /\ pc' = "headers"
    /\ BeginCall
    /\ UNCHANGED <<now, tokenFile, bearer, sent, responses, result, error>>

\* trakt_get_valid_tokens, lines 121-124: load, fast path, choice of branch
GV_Load ==
    /\ gpc = "load"
    /\ IF LoadRaises(tokenFile)
       THEN /\ RaiseFromCall("ParseError")
            /\ gv' = [gv EXCEPT !.via = "raised"]
            /\ UNCHANGED tokens
       ELSE LET t == trakt_load_tokens(tokenFile) IN
            /\ tokens' = t
            \* "and" short-circuits: the expiry check runs on a truthy record only
            /\ IF FastPath(t, now)
               THEN /\ gpc' = "off"
                    /\ gv' = [gv EXCEPT !.loaded = t, !.loadedAt = now,
                                        !.checked = Truthy(t),
                                        !.expired = trakt_is_token_expired(t, now),
                                        !.via = "fast", !.ret = t]
               ELSE /\ gpc' = IF CanRefresh(t) THEN "refresh" ELSE "prompt"
                    /\ gv' = [gv EXCEPT !.loaded = t, !.loadedAt = now,
                                        !.checked = Truthy(t),
                                        !.expired = trakt_is_token_expired(t, now)]
            /\ UNCHANGED <<pc, error>>
    /\ UNCHANGED <<now, tokenFile, attempt, request, bearer, sent, responses,
                   result, pin, op, hookVars, ioVars>>

ExchangeResponses ==
    { [kind |-> k, obj |-> None] : k \in ExchangeFailures }
        \cup { [kind |-> "json", obj |-> o] : o \in ResponseObjects }

\* lines 125-127: the refresh exchange inside try/except; on an answer,
\* trakt_save_tokens begins: open(token_file, "w") cuts the file (line 80)
GV_Refresh(resp) ==
    /\ gpc = "refresh"
    /\ CountExchange
    /\ IF resp.kind = "json"
       THEN /\ tokenFile' = Truncated
            /\ gpc' = "save_opened"
            /\ gv' = [gv EXCEPT !.refreshes = @ + 1, !.refreshResp = resp,
                                !.newTokens = resp.obj]
       ELSE /\ gpc' = "prompt"
            /\ gv' = [gv EXCEPT !.refreshes = @ + 1, !.refreshResp = resp]
            /\ UNCHANGED tokenFile
    /\ UNCHANGED <<now, pc, attempt, request, bearer, sent, responses, result,
                   error, tokens, pin, hookVars, ioVars>>

\* line 81: json.dump(tokens, f, indent=2) fills the buffer of f, the file
\* itself stays as it is
GV_SaveDump ==
    /\ gpc = "save_opened"
    /\ gpc' = "save_dumped"
    /\ UNCHANGED <<now, tokenFile, pc, attempt, request, bearer, sent, responses,
                   result, error, tokens, pin, gv, op, hookVars, ioVars>>

\* leaving the with block of line 80 closes f: the buffer is written at
\* offset 0; then the call returns new_tokens (lines 128-129, 141-142)
GV_SaveClose ==
    /\ gpc = "save_dumped"
    /\ tokenFile' = WriteAtStart(tokenFile, trakt_save_tokens(gv.newTokens).entries)
    /\ gpc' = "off"
    /\ gv' = [gv EXCEPT !.writes = @ + 1, !.savedAt = now,
                        !.via = IF gv.pinExchanges > 0 THEN "pin" ELSE "refresh",
                        !.ret = gv.newTokens]
    /\ UNCHANGED <<now, pc, attempt, request, bearer, sent, responses, result,
                   error, tokens, pin, op, hookVars, ioVars>>

\* lines 134-138: the prompt and the empty-PIN check
GV_Prompt(typed) ==
    /\ gpc = "prompt"
    /\ op' = [op EXCEPT !.prompts = @ + 1]
    /\ IF PinMissing(typed)
       THEN /\ RaiseFromCall("AuthenticationError")
            /\ gv' = [gv EXCEPT !.prompts = @ + 1, !.typed = typed,
                                !.prompted = TRUE, !.via = "raised"]
            /\ UNCHANGED pin
       ELSE /\ gpc' = "exchange"
            /\ pin' = strip(typed)
            /\ gv' = [gv EXCEPT !.prompts = @ + 1, !.typed = typed,
                                !.prompted = TRUE]
            /\ UNCHANGED <<pc, error>>
    /\ UNCHANGED <<now, tokenFile, attempt, request, bearer, sent, responses,
                   result, tokens, hookVars, ioVars>>

ExchangeError(k) ==
    CASE k = "network" -> "TransportError"
      [] k = "http_error" -> "HTTPError"
      [] OTHER -> "ParseError"

\* lines 139-140: the authorization-code exchange, not guarded by try; on
\* an answer, trakt_save_tokens begins with open(token_file, "w")
GV_PinExchange(resp) ==
    /\ gpc = "exchange"
    /\ CountExchange
    /\ IF resp.kind = "json"
       THEN /\ tokenFile' = Truncated
            /\ gpc' = "save_opened"
            /\ gv' = [gv EXCEPT !.pinExchanges = @ + 1, !.newTokens = resp.obj]
            /\ UNCHANGED <<pc, error>>
       ELSE /\ RaiseFromCall(ExchangeError(resp.kind))
            /\ gv' = [gv EXCEPT !.pinExchanges = @ + 1, !.via = "raised"]
            /\ UNCHANGED tokenFile
    /\ UNCHANGED <<now, attempt, request, bearer, sent, responses, result,
                   tokens, pin, hookVars, ioVars>>

\* the refresh token sent where the access token belongs
Authorization_RefreshToken(t) ==
    IF "refresh_token" \in DOMAIN t THEN t["refresh_token"] ELSE t["access_token"]

\* line 147: "Authorization": f"Bearer {tokens['access_token']}"
Authorization(t) == t["access_token"]

\* trakt_auth_headers, lines 146-151, once trakt_get_valid_tokens returned
\* (called by the watchlist loop, line 172, and by test_connection, line 197)
HeadersBuild ==
    /\ pc \in {"headers", "t_headers"}
    /\ gpc = "off"
    /\ IF "access_token" \in DOMAIN gv.ret
       THEN /\ bearer' = Authorization(gv.ret)
            /\ pc' = IF pc = "headers" THEN "post" ELSE "t_request"
            /\ UNCHANGED error
       ELSE /\ pc' = RaisedAt(pc)
            /\ error' = Raise("KeyError")
            /\ UNCHANGED bearer
    /\ UNCHANGED <<now, tokenFile, attempt, request, sent, responses, result,
                   gpc, tokens, pin, gv, op, hookVars, ioVars>>

PostResponses ==
    { [kind |-> "transport", status |-> 0, body |-> ""] }
        \cup { [kind |-> "http", status |-> s, body |-> b] : s \in Statuses, b \in Bodies }

\* lines 169-183: http_post and what the loop body does with the answer
Post(resp) ==
    /\ pc = "post"
    /\ sent' = Append(sent, [endpoint |-> request.endpoint, key |-> request.key,
                             items |-> request.items, bearer |-> bearer,
                             attempt |-> attempt])
    /\ IF resp.kind = "transport"
       THEN /\ pc' = "raised"
            /\ error' = Raise("TransportError")
            /\ UNCHANGED <<responses, result, gpc, tokens, pin, gv, op>>
       ELSE /\ responses' = Append(responses, [status |-> resp.status, body |-> resp.body,
                                                exchanges |-> op.exchanges])
            /\ IF ShouldRetry(resp.status, attempt)
               THEN /\ pc' = "reauth"
                    /\ BeginCall
                    /\ UNCHANGED <<result, error>>
               ELSE /\ UNCHANGED <<gpc, tokens, pin, gv, op>>
                    /\ IF IsFailure(resp.status)
                       THEN /\ pc' = "raised"
                            /\ error' = [kind |-> "RequestError",
                                         status |-> resp.status, body |-> resp.body]
                            /\ UNCHANGED result
                       ELSE IF resp.body = ""
                       THEN /\ pc' = "returned"
                            /\ result' = "empty"
                            /\ UNCHANGED error
                       ELSE IF IsJson(resp.body)
                       THEN /\ pc' = "returned"
                            /\ result' = "parsed"
                            /\ UNCHANGED error
                       ELSE /\ pc' = "raised"
                            /\ error' = Raise("ParseError")
                            /\ UNCHANGED result
    /\ UNCHANGED <<now, tokenFile, attempt, request, bearer, hookVars, ioVars>>

\* lines 177-178 and 168, 185: "continue" once the re-authentication returned
RetryContinue ==
    /\ pc = "reauth"
    /\ gpc = "off"
    /\ attempt' = attempt + 1
    /\ IF attempt + 1 < MaxAttempts
       THEN /\ pc' = "headers"
            /\ BeginCall
            /\ UNCHANGED error
       ELSE /\ pc' = "raised"
            /\ error' = Raise("RetryExhausted")
            /\ UNCHANGED <<gpc, tokens, pin, gv, op>>
    /\ UNCHANGED <<now, tokenFile, request, bearer, sent, responses, result,
                   hookVars, ioVars>>

\* the script starts: module-level code up to main()
Boot ==
    /\ mpc = "boot"
    /\ IF StartupCheck(inv.script, inv.creds)
       THEN /\ mpc' = "exited"
            /\ exit' = [code |-> 1, how |-> "startup"]
       ELSE /\ mpc' = "main"
            /\ UNCHANGED exit
    /\ UNCHANGED <<now, tokenFile, pc, attempt, request, bearer, sent, responses,
                   result, error, gpc, tokens, pin, gv, op,
                   inv, event, item, hret, probe, ioVars>>

\* the event type: environment, else command line, else "test"
EventTypeOf(i) == IF i.etype = <<>> THEN T_test ELSE i.etype

\* how main gets the event data, or how it ends before handle_event:
\* starrtrakt.py 303-312, radarr_trakt.py 14-17
MainOutcome(i) ==
    LET prefix == EnvPrefix(i.service)
        built == IF build_event_data_raises(i.env, prefix)
                 THEN [how |-> "fatal", data |-> PyNone]
                 ELSE [how |-> "ok", data |-> build_event_data(i.env, prefix)]
    IN  IF i.argv # "absent"
        THEN IF i.argv = "bad"
             THEN [how |-> IF i.script = "starrtrakt" THEN "argv" ELSE "fatal",
                   data |-> PyNone]
             ELSE [how |-> "ok", data |-> <<"dict", NoEnv>>]
        ELSE IF i.script = "starrtrakt" /\ IsTest(EventTypeOf(i))
             THEN [how |-> "ok", data |-> <<"dict", NoEnv>>]
             ELSE built

\* main() up to the call of handle_event
Main ==
    /\ mpc = "main"
    /\ LET o == MainOutcome(inv) IN
       IF o.how = "ok"
       THEN /\ event' = [type |-> EventTypeOf(inv), data |-> o.data]
            /\ mpc' = "handle"
            /\ UNCHANGED exit
       ELSE /\ exit' = [code |-> 1, how |-> o.how]
            /\ mpc' = "exited"
            /\ UNCHANGED event
    /\ UNCHANGED <<now, tokenFile, pc, attempt, request, bearer, sent, responses,
                   result, error, gpc, tokens, pin, gv, op,
                   inv, item, hret, probe, ioVars>>

\* handle_event up to the call it makes; without a call, its return and
\* sys.exit in main
HandleEvent ==
    /\ mpc = "handle"
    /\ LET d == Dispatch(inv.script, inv.service, event.type, event.data) IN
       CASE d \in {"add", "remove"} ->
              /\ item' = format_item(event.data[2])
              /\ Start(d, MediaType(inv.service), format_item(event.data[2]))
              /\ mpc' = "running"
              /\ UNCHANGED <<hret, exit>>
         [] d = "test" ->
              /\ pc' = "t_headers"
              /\ BeginCall
              /\ mpc' = "running"
              /\ UNCHANGED <<now, tokenFile, attempt, request, bearer, sent,
                             responses, result, error, item, hret, exit>>
         [] OTHER ->
              /\ item' = IF d = "unknown" THEN format_item(event.data[2]) ELSE item
              /\ hret' = "false"
              /\ exit' = [code |-> ExitCode("false"), how |-> "normal"]
              /\ mpc' = "exited"
              /\ UNCHANGED <<now, tokenFile, pc, attempt, request, bearer, sent,
                             responses, result, error, gpc, tokens, pin, gv, op>>
    /\ UNCHANGED <<inv, event, probe, ioVars>>

\* test_connection: the request to /users/me and its verdict
TestRequest(resp) ==
    /\ pc = "t_request"
    /\ probe' = [called |-> TRUE,
                 sent |-> Append(probe.sent, [method |-> AccountMethod(inv.script),
                                              bearer |-> bearer]),
                 answer |-> resp]
    /\ pc' = IF TestSucceeds(inv.script, resp) THEN "t_true" ELSE "t_false"
    /\ UNCHANGED <<now, tokenFile, attempt, request, bearer, sent, responses,
                   result, error, gpc, tokens, pin, gv, op,
                   inv, mpc, event, item, hret, exit, ioVars>>

\* handle_event returns (or catches what was raised) and main exits
Finish ==
    /\ mpc = "running"
    /\ pc \in {"returned", "raised", "t_true", "t_false"}
    /\ hret' = HandleResult(pc)
    /\ exit' = [code |-> ExitCode(HandleResult(pc)), how |-> "normal"]
    /\ mpc' = "exited"
    /\ UNCHANGED <<now, tokenFile, pc, attempt, request, bearer, sent, responses,
                   result, error, gpc, tokens, pin, gv, op,
                   inv, event, item, probe, ioVars>>

Next ==
    \/ Tick
    \/ Boot
    \/ Main
    \/ HandleEvent
    \/ GV_Load
    \/ \E resp \in ExchangeResponses : GV_Refresh(resp)
    \/ \E typed \in TypedPins : GV_Prompt(typed)
    \/ \E resp \in ExchangeResponses : GV_PinExchange(resp)
    \/ GV_SaveDump
    \/ GV_SaveClose
    \/ HeadersBuild
    \/ \E resp \in PostResponses : Post(resp)
    \/ RetryContinue
    \/ \E resp \in AccountResponses : TestRequest(resp)
    \/ Finish

Spec == Init /\ [][Next]_vars

---------------------------------------------------------------------------
(* trakt_save_tokens step by step, next to a trakt_load_tokens of another *)
(* invocation (lines 71-81).  open(..., "w") truncates the file; json.dump *)
(* hands its text to the buffered file object; leaving the "with" block    *)
(* writes the buffer at the start of the file and closes it.               *)

QuietInvocation ==
    [script |-> "radarr_trakt", service |-> "radarr",
     creds |-> [id |-> "set", secret |-> "set"],
     etype |-> <<>>, argv |-> "absent", env |-> NoEnv]

InitSave ==
    /\ now = 0
    /\ \E f \in { json_dump(t) : t \in StoredRecords }, r \in ResponseObjects :
          /\ tokenFile = f
          /\ saver = [pc |-> "start", record |-> r, before |-> f, buffer |-> <<>>]
    /\ reader = NoRead
    /\ pc = "idle"
    /\ attempt = 0
    /\ request = [endpoint |-> "", key |-> "", items |-> <<>>]
    /\ bearer = ""
    /\ sent = <<>>
    /\ responses = <<>>
    /\ result = "none"
    /\ error = NoError
    /\ gpc = "off"
    /\ tokens = None
    /\ pin = <<>>
    /\ gv = NewCall(0, NoFile)
    /\ op = NewOp
    /\ inv = QuietInvocation
    /\ mpc = "boot"
    /\ event = NoEvent
    /\ item = NoItem
    /\ hret = "none"
    /\ exit = Running
    /\ probe = NoProbe

\* line 80: with open(token_file, "w") as f
SaveOpen ==
    /\ saver.pc = "start"
    /\ tokenFile' = Truncated
    /\ saver' = [saver EXCEPT !.pc = "opened"]
    /\ UNCHANGED <<now, pc, attempt, request, bearer, sent, responses, result,
                   error, gpc, tokens, pin, gv, op, hookVars, reader>>

\* line 81: json.dump writes the text into the buffer of f
SaveWrite ==
    /\ saver.pc = "opened"
    /\ saver' = [saver EXCEPT !.pc = "dumped",
                              !.buffer = trakt_save_tokens(saver.record).entries]
    /\ UNCHANGED <<now, tokenFile, pc, attempt, request, bearer, sent, responses,
                   result, error, gpc, tokens, pin, gv, op, hookVars, reader>>

\* end of the "with" block: the buffer is written at offset 0, then close
SaveClose ==
    /\ saver.pc = "dumped"
    /\ tokenFile' = WriteAtStart(tokenFile, saver.buffer)
    /\ saver' = [saver EXCEPT !.pc = "done"]
    /\ UNCHANGED <<now, pc, attempt, request, bearer, sent, responses, result,
                   error, gpc, tokens, pin, gv, op, hookVars, reader>>

\* lines 72-76 in the other invocation
ReaderLoad ==
    /\ reader.pc = "idle"
    /\ reader' = [pc |-> "done",
                  raised |-> LoadRaises(tokenFile),
                  got |-> IF LoadRaises(tokenFile) THEN None
                          ELSE trakt_load_tokens(tokenFile)]
    /\ UNCHANGED <<now, tokenFile, pc, attempt, request, bearer, sent, responses,
                   result, error, gpc, tokens, pin, gv, op, hookVars, saver>>

NextSave ==
    \/ SaveOpen
    \/ SaveWrite
    \/ SaveClose
    \/ ReaderLoad

SpecSave == InitSave /\ [][NextSave]_vars

---------------------------------------------------------------------------
(* format_item on its own (lines 216-231), applied to event-data mappings *)

\* the keys format_item reads
ItemKeys == {"imdbId", "tmdbId", "tvdbId", "title", "year"}

\* values a mapping may hold under a key: None, strings and integers,
\* empty and zero included
EventValues ==
    { PyNone, PyStr(<<>>), PyStr(<<"t", "t", "1">>), PyInt(0), PyInt(5) }

EventMappings == UNION { [ks -> EventValues] : ks \in SUBSET ItemKeys }

\* no request, no token call and no script under way
FlowAtRest ==
    /\ now = 0
    /\ pc = "idle"
    /\ attempt = 0
    /\ request = [endpoint |-> "", key |-> "", items |-> <<>>]
    /\ bearer = ""
    /\ sent = <<>>
    /\ responses = <<>>
    /\ result = "none"
    /\ error = NoError
    /\ gpc = "off"
    /\ tokens = None
    /\ pin = <<>>
    /\ gv = NewCall(0, NoFile)
    /\ op = NewOp
    /\ hret = "none"
    /\ exit = Running
    /\ probe = NoProbe

InitItem ==
    /\ FlowAtRest
    /\ tokenFile = NoFile
    /\ inv = QuietInvocation
    /\ mpc = "handle"
    /\ \E d \in EventMappings : event = [type |-> <<>>, data |-> <<"dict", d>>]
    /\ item = NoItem
    /\ saver = NoSave
    /\ reader = NoRead

\* item = format_item(event_data)
FormatItem ==
    /\ mpc = "handle"
    /\ item' = format_item(event.data[2])
    /\ mpc' = "formatted"
    /\ UNCHANGED <<now, tokenFile, pc, attempt, request, bearer, sent, responses,
                   result, error, gpc, tokens, pin, gv, op,
                   inv, event, hret, exit, probe, ioVars>>

NextItem == FormatItem

SpecItem == InitItem /\ [][NextItem]_vars

---------------------------------------------------------------------------
(* A watchlist operation next to another invocation that saves its own    *)
(* record into the same token file (trakt_save_tokens step by step).      *)

\* the record the other invocation saves: a complete answer of the token
\* endpoint, or a shorter one without created_at
PeerRecords ==
    { Rec(Fields, "C", "T", 1, 61), Rec(Fields \ {"created_at"}, "C", "T", 1, 61) }

SharedInvocation ==
    [script |-> "radarr_trakt", service |-> "radarr",
     creds |-> [id |-> "set", secret |-> "set"],
     etype |-> <<"M", "o", "v", "i", "e", "A", "d", "d", "e", "d">>,
     argv |-> "absent", env |-> FullEnv("radarr_movie")]

InitShared ==
    /\ FlowAtRest
    /\ inv = SharedInvocation
    /\ mpc = "boot"
    /\ event = NoEvent
    /\ item = NoItem
    /\ reader = NoRead
    /\ \E f \in CommonFiles, r \in PeerRecords :
          /\ tokenFile = f
          /\ saver = [pc |-> "start", record |-> r, before |-> f, buffer |-> <<>>]

NextShared ==
    \/ Tick
    \/ Boot
    \/ Main
    \/ HandleEvent
    \/ GV_Load
    \/ \E resp \in ExchangeResponses : GV_Refresh(resp)
    \/ \E typed \in TypedPins : GV_Prompt(typed)
    \/ \E resp \in ExchangeResponses : GV_PinExchange(resp)
    \/ GV_SaveDump
    \/ GV_SaveClose
    \/ HeadersBuild
    \/ \E resp \in PostResponses : Post(resp)
    \/ RetryContinue
    \/ Finish
    \/ SaveOpen
    \/ SaveWrite
    \/ SaveClose

SpecShared == InitShared /\ [][NextShared]_vars

---------------------------------------------------------------------------
(* Watchlist operations whose every step returns: the network calls and   *)
(* the PIN prompt answer, so the running process always takes its next    *)
(* step.                                                                  *)

\* an add through common.py and a remove through starrtrakt.py
LiveInvocations ==
    { SharedInvocation,
      [script |-> "starrtrakt", service |-> "sonarr",
       creds |-> [id |-> "set", secret |-> "set"],
       etype |-> T_seriesdelete, argv |-> "absent", env |-> FullEnv("sonarr_series")] }

InitLive ==
    /\ FlowAtRest
    /\ inv \in LiveInvocations
    /\ tokenFile \in CommonFiles
    /\ mpc = "boot"
    /\ event = NoEvent
    /\ item = NoItem
    /\ saver = NoSave
    /\ reader = NoRead

\* the steps of the process itself
Progress ==
    \/ Boot
    \/ Main
    \/ HandleEvent
    \/ GV_Load
    \/ \E resp \in ExchangeResponses : GV_Refresh(resp)
    \/ \E typed \in TypedPins : GV_Prompt(typed)
    \/ \E resp \in ExchangeResponses : GV_PinExchange(resp)
    \/ GV_SaveDump
    \/ GV_SaveClose
    \/ HeadersBuild
    \/ \E resp \in PostResponses : Post(resp)
    \/ RetryContinue
    \/ Finish

NextLive ==
    \/ Tick
    \/ Progress

SpecLive == InitLive /\ [][NextLive]_vars /\ WF_vars(Progress)

---------------------------------------------------------------------------
(* Properties *)

\* the last answer to a watchlist POST
LastResponse == responses[Len(responses)]

\* C1 (as claimed): after a 401 on the first watchlist POST a refresh
\* exchange or a PIN exchange is performed before the second POST, whatever
\* the locally computed expiry of the persisted record.
C1_ForcedRefreshBeforeRetry ==
    ((pc = "post" /\ attempt = 1) \/ Len(sent) = 2) => op.exchangesAfterPost >= 1

\* C2: an operation sends at most 2 watchlist POSTs, and when both are
\* answered 401 it has failed with a RequestError after exactly 2 POSTs.
C2_AtMostTwoPosts ==
    /\ Len(sent) <= 2
    /\ (Len(responses) = 2 /\ responses[1].status = 401 /\ responses[2].status = 401)
          => /\ pc = "raised"
             /\ error.kind = "RequestError"
             /\ error.status = 401
             /\ Len(sent) = 2

C2_Witness ==
    /\ pc = "raised"
    /\ Len(responses) = 2
    /\ responses[1].status = 401
    /\ responses[2].status = 401

\* C3: a status >= 400 that is not a 401 on the first attempt fails the
\* operation at once with a RequestError carrying that status and body; no
\* watchlist POST and no token exchange follows that answer.
C3_FailureIsFinal ==
    (/\ Len(responses) > 0
     /\ LastResponse.status >= 400
     /\ ~(LastResponse.status = 401 /\ Len(responses) = 1))
        => /\ pc = "raised"
           /\ error = [kind |-> "RequestError", status |-> LastResponse.status,
                       body |-> LastResponse.body]
           /\ Len(sent) = Len(responses)
           /\ gpc = "off"
           /\ op.exchanges = LastResponse.exchanges

C3_Witness ==
    /\ pc = "raised"
    /\ Len(responses) = 1
    /\ responses[1].status = 403
    /\ responses[1].body = "oops"

\* C4: a call of trakt_get_valid_tokens that loads a present, non-expired
\* record returns that record with no network call, no PIN prompt and no
\* write of the token file.
C4_FastPathIsLocal ==
    (Truthy(gv.loaded) /\ ~trakt_is_token_expired(gv.loaded, gv.loadedAt))
        => /\ gpc = "off"
           /\ gv.via = "fast"
           /\ gv.ret = gv.loaded
           /\ gv.refreshes = 0
           /\ gv.pinExchanges = 0
           /\ gv.prompts = 0
           /\ gv.writes = 0
           /\ tokenFile = gv.fileAtStart

C4_Witness ==
    /\ gv.via = "fast"
    /\ pc = "post"
    /\ Fields \subseteq DOMAIN gv.loaded

\* the call is inside trakt_save_tokens
Saving == gpc \in {"save_opened", "save_dumped"}

\* C5: a call that loads an expired record with a refresh_token issues
\* exactly one refresh exchange; if it succeeds there is no prompt, the new
\* record is saved (the call is in the save, or has returned after one
\* write), and once the call has returned, loading the token file gives
\* the returned record.
C5_RefreshOnceAndRoundTrip ==
    (/\ Truthy(gv.loaded)
     /\ trakt_is_token_expired(gv.loaded, gv.loadedAt)
     /\ "refresh_token" \in DOMAIN gv.loaded)
        => /\ gv.refreshes = (IF gpc = "refresh" THEN 0 ELSE 1)
           /\ gv.refreshResp.kind = "json"
                 => /\ gv.prompts = 0
                    /\ gv.pinExchanges = 0
                    /\ gv.newTokens = gv.refreshResp.obj
                    /\ Saving \/ gpc = "off"
                    /\ Saving => gv.writes = 0 /\ gv.via = "running"
                    /\ gpc = "off"
                          => /\ gv.via = "refresh"
                             /\ gv.writes = 1
                             /\ gv.ret = gv.refreshResp.obj
                             /\ ~LoadRaises(tokenFile)
                             /\ trakt_load_tokens(tokenFile) = gv.ret

C5_Witness ==
    /\ gv.via = "refresh"
    /\ Fields \subseteq DOMAIN gv.ret
    /\ gv.ret["expires_in"] = 61
    /\ trakt_load_tokens(tokenFile) = gv.ret

\* C6 (as claimed): every record returned after a successful refresh
\* exchange is not expired at the moment it is saved, whatever JSON object
\* the token endpoint answered.
C6_RefreshedIsFresh ==
    gv.via = "refresh" => ~trakt_is_token_expired(gv.ret, gv.savedAt)

\* a refresh answer that the claim counts as a failure
RefreshFailedAsClaimed ==
    \/ gv.refreshResp.kind \in ExchangeFailures
    \/ gv.refreshResp.kind = "json" /\ ~(Fields \subseteq DOMAIN gv.refreshResp.obj)

\* C7 (as claimed): when the refresh exchange fails (network error, non-2xx
\* status, malformed answer, or a 2xx JSON answer that lacks token fields)
\* the call does not raise and does not save the answer: the token file is
\* left as it was and the call goes on to the PIN prompt.
C7_FailedRefreshFallsThrough ==
    RefreshFailedAsClaimed
        => /\ gv.via # "refresh"
           /\ gpc = "prompt" \/ gv.prompted
           /\ gv.pinExchanges = 0 => (gv.writes = 0 /\ tokenFile = gv.fileAtStart)

\* C8: an empty PIN makes the call fail with an authentication error, with
\* no authorization-code exchange, no write of the token file and no second
\* prompt.
C8_EmptyPinIsFatal ==
    (gv.prompted /\ strip(gv.typed) = <<>>)
        => /\ gpc = "off"
           /\ gv.via = "raised"
           /\ pc \in {"raised", "t_false"}
           /\ error.kind = "AuthenticationError"
           /\ gv.pinExchanges = 0
           /\ gv.prompts = 1
           /\ gv.writes = 0
           /\ tokenFile = gv.fileAtStart

C8_Witness ==
    /\ gv.prompted
    /\ gv.typed = <<" ">>
    /\ error.kind = "AuthenticationError"
    /\ gv.refreshes = 1

\* the record of the last expiry check carries both time fields
CheckedTimed == gv.checked /\ {"created_at", "expires_in"} \subseteq DOMAIN gv.loaded
ExpiryEdge == gv.loaded["created_at"] + gv.loaded["expires_in"] - 60

\* C9 (as claimed): trakt_is_token_expired is false when
\* now < created_at + expires_in - 60 and true for every other now,
\* including now = created_at + expires_in - 60.
C9_ExpiredFromBoundary ==
    CheckedTimed => (gv.expired <=> ~(gv.loadedAt < ExpiryEdge))

\* C9 (amended): trakt_is_token_expired is true exactly when
\* now > created_at + expires_in - 60; at now = created_at + expires_in - 60
\* it is false.
C9_ExpiredAfterBoundary ==
    CheckedTimed => (gv.expired <=> gv.loadedAt > ExpiryEdge)

C9_Witness ==
    /\ CheckedTimed
    /\ gv.loadedAt = ExpiryEdge
    /\ ~gv.expired

\* C10 (as claimed): trakt_is_token_expired is true for every record that
\* misses one of access_token, refresh_token, created_at, expires_in, so the
\* fast path never returns a record without access_token.
C10_IncompleteIsExpired ==
    /\ (gv.checked /\ ~(Fields \subseteq DOMAIN gv.loaded)) => gv.expired
    /\ gv.via = "fast" => "access_token" \in DOMAIN gv.ret

\* handle_event has been called
Handled == mpc \in {"running", "exited"} /\ exit.how \in {"running", "normal"}

InTest == pc \in {"t_headers", "t_request", "t_true", "t_false"}

\* C11 (as claimed): test_connection never raises; it returns false when
\* the account endpoint answers with a non-2xx status, when the request
\* fails at transport level and when acquiring the token fails; it returns
\* true only after a successful (2xx) response of the account endpoint.
C11_TrueOnlyAfterSuccess ==
    /\ pc = "t_true" =>
          /\ probe.called
          /\ probe.answer.kind = "http"
          /\ probe.answer.status >= 200 /\ probe.answer.status < 300
    /\ (InTest /\ probe.called /\ probe.answer.kind = "transport") => pc = "t_false"
    /\ (InTest /\ gv.via = "raised") => pc = "t_false" /\ ~probe.called

\* C12 (as claimed): for every handler variant, a "test" event (compared
\* in lowercase) makes handle_event call test_connection and return its
\* result, also when the event data is empty or absent.
C12_TestBypassesDataCheck ==
    (Handled /\ IsTest(event.type)) =>
        /\ InTest
        /\ mpc = "exited" => (hret = "true" <=> pc = "t_true")

\* the event sets as the claims state them
ClaimedAction(sv, t) ==
    CASE sv = "sonarr" /\ t = T_seriesadd -> "add"
      [] sv = "sonarr" /\ t \in {T_download, T_seriesdelete} -> "remove"
      [] sv = "radarr" /\ t = T_movieadded -> "add"
      [] sv = "radarr" /\ t \in {T_download, T_moviedelete} -> "remove"
      [] OTHER -> "none"

\* no watchlist POST, no token exchange, no account request, no prompt
NoRemote ==
    /\ sent = <<>>
    /\ op.exchanges = 0
    /\ op.prompts = 0
    /\ ~probe.called

\* C13: handle_event returns false without any remote call (watchlist
\* POST, token exchange, account request) and without a PIN prompt when
\* the event type is neither "test" nor in the add-set or the remove-set,
\* and when the data of a non-test event is missing.
C13_NothingToDoIsLocal ==
    (/\ Handled
     /\ ~IsTest(event.type)
     /\ \/ ~DataTruthy(event.data)
        \/ ClaimedAction(inv.service, lower(event.type)) = "none") =>
        /\ mpc = "exited"
        /\ hret = "false"
        /\ op.calls = 0
        /\ NoRemote

C13_Witness ==
    /\ mpc = "exited"
    /\ exit.how = "normal"
    /\ DataTruthy(event.data)
    /\ event.type = <<"G", "r", "a", "b">>
    /\ hret = "false"

\* C14: an event type that is, in lowercase, in the add-set causes POSTs
\* to /sync/watchlist only, one in the remove-set POSTs to
\* /sync/watchlist/remove only; the body has the single key "shows"
\* (series) or "movies" (movie) holding exactly the one item; handle_event
\* returns true when the request succeeds.
C14_EventMapping ==
    (/\ Handled
     /\ DataTruthy(event.data)
     /\ ClaimedAction(inv.service, lower(event.type)) # "none") =>
        /\ pc # "idle"
        /\ item = format_item(event.data[2])
        /\ \A k \in 1..Len(sent) :
              /\ sent[k].endpoint =
                    (IF ClaimedAction(inv.service, lower(event.type)) = "add"
                     THEN "/sync/watchlist" ELSE "/sync/watchlist/remove")
              /\ sent[k].key = (IF inv.service = "sonarr" THEN "shows" ELSE "movies")
              /\ sent[k].items = <<item>>
        /\ (mpc = "exited" /\ pc = "returned") => hret = "true"

C14_Witness ==
    /\ mpc = "exited"
    /\ inv.service = "radarr"
    /\ event.type = <<"D", "o", "w", "n", "l", "o", "a", "d">>
    /\ Len(sent) = 2
    /\ sent[2].endpoint = "/sync/watchlist/remove"
    /\ sent[2].key = "movies"
    /\ hret = "true"

\* C15 (as claimed): a trakt_load_tokens that runs in another invocation
\* while trakt_save_tokens replaces the token file reads the complete old
\* record or the complete new record, never empty or partial content, and
\* so never fails to parse.
C15_ReaderSeesOldOrNew ==
    reader.pc = "done" =>
        /\ ~reader.raised
        /\ reader.got \in {trakt_load_tokens(saver.before), saver.record}

\* C16 (as claimed): an error raised while a non-test event is handled
\* leaves handle_event uncaught and reaches the top-level handler of main;
\* handle_event does not turn it into a false return value.
C16_ErrorsReachMain ==
    (mpc = "exited" /\ pc = "raised") => (exit.how = "fatal" /\ hret = "none")

\* C16 (amended): an error raised while a non-test event is handled is
\* caught inside handle_event, which returns false; main then exits with
\* code 1 through sys.exit, and the error does not reach main's top-level
\* handler.
C16_ErrorsBecomeFalse ==
    (mpc = "exited" /\ pc = "raised") =>
        /\ error.kind # "none"
        /\ hret = "false"
        /\ exit = [code |-> 1, how |-> "normal"]

C16_Witness ==
    /\ mpc = "exited"
    /\ pc = "raised"
    /\ error.kind = "RequestError"
    /\ hret = "false"
    /\ exit.code = 1

\* C17 (as claimed): in every entry point, when TRAKT_CLIENT_ID or
\* TRAKT_CLIENT_SECRET is absent the process ends with a fatal startup
\* error and exit code 1 before any event is handled, any network call is
\* made or any PIN prompt is shown.
C17_CredentialsRequired ==
    CredentialsMissing(inv.creds) =>
        /\ mpc = "exited" => exit = [code |-> 1, how |-> "startup"]
        /\ hret = "none"
        /\ NoRemote

\* C18: in a call of trakt_get_valid_tokens the PIN prompt is reached only
\* if the file holds no record, or the record has no refresh_token, or a
\* refresh exchange was attempted in this call and failed; for an expired
\* record with a refresh_token a refresh exchange comes before any prompt;
\* after a successful refresh there is no prompt.
C18_PromptIsLastResort ==
    /\ (gpc = "prompt" \/ gv.prompted) =>
          \/ ~Truthy(gv.loaded)
          \/ "refresh_token" \notin DOMAIN gv.loaded
          \/ gv.refreshes = 1 /\ gv.refreshResp.kind \in ExchangeFailures
    /\ (/\ gpc \in {"prompt", "exchange"} \/ gv.prompted
        /\ gv.checked /\ gv.expired
        /\ "refresh_token" \in DOMAIN gv.loaded) => gv.refreshes = 1
    /\ gv.refreshResp.kind = "json" => ((Saving \/ gpc = "off") /\ gv.prompts = 0)

C18_Witness ==
    /\ gv.prompted
    /\ "refresh_token" \in DOMAIN gv.loaded
    /\ gv.refreshes = 1
    /\ gv.refreshResp.kind = "http_error"

\* C19: the token file changes only in the save that follows a successful
\* refresh exchange or a successful authorization-code exchange at once:
\* the step that ends the exchange opens the file for writing, nothing but
\* the save follows, and the step that closes the file leaves in it
\* exactly the record the exchange returned, which the call returns; every
\* other step leaves the file as it is.
C19_WrittenOnlyAfterExchange ==
    [][ /\ tokenFile' # tokenFile =>
              \/ /\ gpc \in {"refresh", "exchange"}
                 /\ op'.exchanges = op.exchanges + 1
                 /\ gpc' = "save_opened"
              \/ /\ gpc = "save_dumped"
                 /\ gv'.writes = gv.writes + 1
        /\ (gpc \in {"refresh", "exchange"} /\ gpc' = "save_opened") =>
              /\ tokenFile' = Truncated
              /\ gv'.newTokens \in ResponseObjects
              /\ gv'.writes = gv.writes
        /\ (Saving /\ gpc' # gpc) =>
              \/ gpc = "save_opened" /\ gpc' = "save_dumped"
              \/ gpc = "save_dumped" /\ gpc' = "off" /\ gv'.writes = gv.writes + 1
        /\ gv'.writes = gv.writes + 1 =>
              /\ gpc = "save_dumped"
              /\ gv'.via = (IF gv.pinExchanges > 0 THEN "pin" ELSE "refresh")
              /\ gv'.ret = gv.newTokens
              /\ ~LoadRaises(tokenFile')
              /\ trakt_load_tokens(tokenFile') = gv'.ret
      ]_vars

C19_Witness ==
    /\ gv.via = "pin"
    /\ gv.writes = 1
    /\ gv.refreshes = 1
    /\ tokenFile # gv.fileAtStart
    /\ trakt_load_tokens(tokenFile) = gv.ret

\* the environment identifier behind an ids key
EnvIdName(id) ==
    CASE id = "imdb" -> "imdbid"
      [] id = "tmdb" -> "tmdbid"
      [] OTHER -> "tvdbid"

\* the identifier is set, not empty and not zero
EnvIdGiven(env, prefix, id) ==
    /\ <<prefix, EnvIdName(id)>> \in DOMAIN env
    /\ env[<<prefix, EnvIdName(id)>>] \notin {<<>>, <<"0">>}

\* C20 (as claimed): the item of an event whose data is built from the
\* environment carries an ids entry for each of imdb, tmdb and tvdb whose
\* environment identifier is non-empty and non-zero, and none for the
\* others.
C20_IdsFollowEnvironment ==
    (Handled /\ inv.argv = "absent" /\ Len(sent) > 0) =>
        \A id \in {"imdb", "tmdb", "tvdb"} :
            id \in DOMAIN sent[1].items[1].ids
                <=> EnvIdGiven(inv.env, EnvPrefix(inv.service), id)

\* the falsy values the claims name: null, the empty string and 0
Falsy == { PyNone, PyStr(<<>>), PyInt(0) }

\* C21: for every event-data mapping format_item returns an item that has
\* an ids object (possibly empty), and no key inside ids, nor title nor
\* year, is present with a falsy value; what is present is the value of
\* the mapping.
C21_NoFalsyInItem ==
    mpc = "formatted" =>
        /\ "ids" \in DOMAIN item
        /\ DOMAIN item.ids \subseteq {"imdb", "tmdb", "tvdb"}
        /\ \A k \in DOMAIN item.ids :
              item.ids[k] \notin Falsy /\ item.ids[k] = event.data[2][IdSource(k)]
        /\ DOMAIN item.fields \subseteq {"title", "year"}
        /\ \A k \in DOMAIN item.fields :
              item.fields[k] \notin Falsy /\ item.fields[k] = event.data[2][k]

C21_Witness ==
    /\ mpc = "formatted"
    /\ DOMAIN event.data[2] = ItemKeys
    /\ event.data[2]["imdbId"] = PyStr(<<>>)
    /\ event.data[2]["tmdbId"] = PyInt(0)
    /\ event.data[2]["tvdbId"] = PyInt(5)
    /\ event.data[2]["title"] = PyNone
    /\ DOMAIN item.ids = {"tvdb"}
    /\ "title" \notin DOMAIN item.fields

\* the other invocation has not written since the running / last call of
\* trakt_get_valid_tokens began: it has not started, or it was done before
PeerQuiet ==
    \/ saver.pc = "start"
    \/ /\ saver.pc = "done"
       /\ gv.fileAtStart = WriteAtStart(Truncated, saver.buffer)

\* C22: each watchlist POST carries as bearer the access_token of the
\* record that the call of trakt_get_valid_tokens made for that attempt
\* returned; without a write of another process in between, that record
\* is what the token file holds; after a 401 the token file is read again
\* for the retry, and a record another invocation has saved by then (and
\* that is still valid) provides the bearer of the second POST.
C22_BearerIsCurrentRecord ==
    /\ pc = "post" =>
          /\ gv.n = (IF attempt = 0 THEN 1 ELSE 3)
          /\ gv.via \in {"fast", "refresh", "pin"}
          /\ bearer = gv.ret["access_token"]
          /\ PeerQuiet =>
                (~LoadRaises(tokenFile) /\ trakt_load_tokens(tokenFile) = gv.ret)
    /\ (Len(sent) > 0 /\ pc # "post") => sent[Len(sent)].bearer = bearer
    /\ Len(sent) = 2 =>
          /\ gv.n = 3
          /\ gv.via = "fast" => gv.ret = gv.loaded
          /\ (gv.via = "fast" /\ gv.loaded = saver.record) =>
                sent[2].bearer = saver.record["access_token"]

C22_Witness ==
    /\ Len(sent) = 2
    /\ saver.pc = "done"
    /\ sent[1].bearer = "A"
    /\ sent[2].bearer = "C"
    /\ gv.loaded = saver.record

\* the resources an operation has used so far stay within the claimed bounds
WithinBounds ==
    /\ Len(sent) <= 2
    /\ op.calls <= 3
    /\ gv.n = op.calls
    /\ op.calls <= Len(sent) + 1 + (IF Len(responses) > 0 /\ responses[1].status = 401
                                    THEN 1 ELSE 0)
    /\ gv.refreshes <= 1
    /\ gv.prompts <= 1
    /\ op.prompts <= 3
    /\ op.exchanges <= 2 * op.calls

\* C23: when every network call and every PIN prompt returns, each
\* add_to_watchlist / remove_from_watchlist operation ends with a result
\* or an error, after at most 2 watchlist POSTs and at most 3 calls of
\* trakt_get_valid_tokens (one per attempt, one more after a 401 on the
\* first attempt), each with at most one refresh exchange and one PIN
\* prompt, so after at most 3 of either.
C23_TerminatesWithinBounds ==
    /\ []WithinBounds
    /\ (pc = "headers") ~> (pc \in {"returned", "raised"})

C23_Witness ==
    /\ pc \in {"returned", "raised"}
    /\ Len(sent) = 2
    /\ op.calls = 3
    /\ op.prompts = 3
    /\ request.endpoint = "/sync/watchlist/remove"

====
